---- MODULE Spec2Model ----
(***************************************************************************)
(* A model of knockout.py: the model loader (load_model_from_file), the    *)
(* Knockout object (constructor, set_gene_list, load_data,                 *)
(* parse_gene_info_from_model, run_knockout) and the command line driver   *)
(* (main).                                                                 *)
(*                                                                         *)
(* Text is a sequence of one-character strings, so that lower(), split()   *)
(* and strip() are computed character by character as Python computes     *)
(* them.  The file system is a function from the paths that exist to what  *)
(* is stored there.                                                        *)
(***************************************************************************)
EXTENDS Integers, Sequences, FiniteSets, TLC

VARIABLES
    fs,       \* the file system: path -> entry, for the paths that exist
    fs0,      \* the file system before the first operation (history)
    argv,     \* the parsed command line of main (args)
    runner,   \* the Knockout object, or NoObject
    pc,       \* position of main
    error,    \* the exception the last operation raised, or NoError
    calls,    \* the operations invoked so far, in order, each with the
              \* output directory it was given or <<>> (history)
    invoked,  \* the parsers invoked by the last load_model_from_file (history)
    log,      \* the lines logged so far, in order
    table     \* what the last single_gene_deletion returned (history)

vars == <<fs, fs0, argv, runner, pc, error, calls, invoked, log, table>>

\* Python's None, and a value that is not None: the field of an object
\* that may hold either
None == [some |-> FALSE, value |-> <<>>]
Some(v) == [some |-> TRUE, value |-> v]
NoObject == [constructed |-> FALSE]
NoError == "none"

----------------------------------------------------------------------------
(* Python text operations *)

UpperCase ==
    <<"A","B","C","D","E","F","G","H","I","J","K","L","M",
      "N","O","P","Q","R","S","T","U","V","W","X","Y","Z">>

LowerCase ==
    <<"a","b","c","d","e","f","g","h","i","j","k","l","m",
      "n","o","p","q","r","s","t","u","v","w","x","y","z">>

\* str.lower() of one character
LowerChar(c) ==
    IF \E i \in 1..Len(UpperCase) : UpperCase[i] = c
    THEN LowerCase[CHOOSE i \in 1..Len(UpperCase) : UpperCase[i] = c]
    ELSE c

\* str.lower()
Lower(s) == [i \in 1..Len(s) |-> LowerChar(s[i])]

\* the index of the first occurrence of character c in s (c occurs in s)
Find(s, c) ==
    CHOOSE i \in 1..Len(s) : s[i] = c /\ \A j \in 1..(i - 1) : s[j] # c

\* str.split(c) for a one-character separator: always at least one piece
RECURSIVE Split(_, _)
Split(s, c) ==
    IF \A i \in 1..Len(s) : s[i] # c
    THEN <<s>>
    ELSE LET k == Find(s, c)
         IN  <<SubSeq(s, 1, k - 1)>> \o Split(SubSeq(s, k + 1, Len(s)), c)

\* seq[-1]
Last(seq) == seq[Len(seq)]

\* str.strip(c) for a one-character set: drops leading and trailing c
RECURSIVE Strip(_, _)
Strip(s, c) ==
    IF s = <<>> THEN s
    ELSE IF Head(s) = c THEN Strip(Tail(s), c)
    ELSE IF Last(s) = c THEN Strip(SubSeq(s, 1, Len(s) - 1), c)
    ELSE s

\* sep.join(pieces)
RECURSIVE Join(_, _)
Join(pieces, sep) ==
    IF pieces = <<>> THEN <<>>
    ELSE IF Len(pieces) = 1 THEN pieces[1]
    ELSE pieces[1] \o sep \o Join(Tail(pieces), sep)

\* what a file opened in text mode yields for the characters stored:
\* universal newlines turn "\r\n" and a lone "\r" into "\n"
RECURSIVE UniversalNewlines(_)
UniversalNewlines(text) ==
    IF text = <<>> THEN <<>>
    ELSE IF Head(text) # "\r" THEN <<Head(text)>> \o UniversalNewlines(Tail(text))
    ELSE IF Len(text) >= 2 /\ text[2] = "\n"
    THEN <<"\n">> \o UniversalNewlines(SubSeq(text, 3, Len(text)))
    ELSE <<"\n">> \o UniversalNewlines(Tail(text))

\* the lines of a text whose line ends are all "\n", each keeping its "\n"
RECURSIVE SplitLines(_)
SplitLines(text) ==
    IF text = <<>> THEN <<>>
    ELSE IF \A i \in 1..Len(text) : text[i] # "\n" THEN <<text>>
    ELSE LET k == Find(text, "\n")
         IN  <<SubSeq(text, 1, k)>> \o SplitLines(SubSeq(text, k + 1, Len(text)))

\* open(path).readlines() for a file storing text: the newlines are
\* translated, then the lines split
ReadLines(text) == SplitLines(UniversalNewlines(text))

----------------------------------------------------------------------------
(* Text constants of the program *)

T_dot == "."
T_slash == "/"
T_newline == "\n"
T_tab == "\t"

T_xml == <<"x","m","l">>
T_json == <<"j","s","o","n">>
T_mat == <<"m","a","t">>

\* "_knock_res.txt"
T_knock_res == <<"_","k","n","o","c","k","_","r","e","s",".","t","x","t">>

\* the column names of the result table
T_ids == <<"i","d","s">>
T_growth == <<"g","r","o","w","t","h">>
T_status == <<"s","t","a","t","u","s">>
T_name == <<"n","a","m","e">>

T_optimal == <<"o","p","t","i","m","a","l">>
T_infeasible == <<"i","n","f","e","a","s","i","b","l","e">>

----------------------------------------------------------------------------
(* The file system *)

\* what a path holds: a directory, a text, a model document in one of the
\* three formats, a model document with a required key missing, or a file
\* that cannot be read
Dir == [kind |-> "dir", fmt |-> "none", data |-> <<>>]
TextFile(data) == [kind |-> "text", fmt |-> "none", data |-> data]
ModelFile(fmt, genes) == [kind |-> "model", fmt |-> fmt, data |-> genes]
MalformedFile(fmt) == [kind |-> "malformed", fmt |-> fmt, data |-> <<>>]
UnreadableFile == [kind |-> "unreadable", fmt |-> "none", data |-> <<>>]

\* os.path.exists
exists(fsys, path) == path \in DOMAIN fsys

\* the file system with entry stored at path
Put(fsys, path, entry) ==
    [q \in (DOMAIN fsys) \cup {path} |-> IF q = path THEN entry ELSE fsys[q]]

\* the directories above path, nearest the root first ("/" itself always exists)
Ancestors(path) ==
    { SubSeq(path, 1, k - 1) : k \in { i \in 2..Len(path) : path[i] = T_slash } }

\* mkdir -p path, for a path the shell passes on as one word: fails when a
\* component is not a directory, else creates every missing component
mkdir_p(fsys, path) ==
    LET chain == Ancestors(path) \cup {path}
    IN  IF \E q \in chain : exists(fsys, q) /\ fsys[q].kind # "dir"
        THEN [ok |-> FALSE, fs |-> fsys]
        ELSE [ok |-> TRUE,
              fs |-> [q \in (DOMAIN fsys) \cup chain |->
                        IF q \in DOMAIN fsys THEN fsys[q] ELSE Dir]]

----------------------------------------------------------------------------
(* load_model_from_file *)

\* the three parsers of cobra.io, by the format each reads
read_sbml_model == "sbml"
load_json_model == "json"
load_matlab_model == "matlab"

\* funcs_dict: extension -> parser
funcs_dict ==
    [e \in {T_xml, T_json, T_mat} |->
        IF e = T_xml THEN read_sbml_model
        ELSE IF e = T_json THEN load_json_model
        ELSE load_matlab_model]

\* a faulty variant: the extension taken without lowercasing the path
file_ext_case_sensitive(file) == Last(Split(file, T_dot))

\* file.lower().split('.')[-1]
file_ext(file) == Last(Split(Lower(file), T_dot))

\* what a parser does with the file at path: returns the model stored there
\* when the document is of the parser's format, and raises otherwise
Parse(parser, fsys, path) ==
    LET e == fsys[path]
    IN  IF e.kind \in {"unreadable", "dir"}
        THEN [raised |-> "IOError", value |-> None]
        ELSE IF e.kind = "text" \/ e.fmt # parser
        THEN [raised |-> "ParseError", value |-> None]
        ELSE IF e.kind = "malformed"
        THEN [raised |-> "KeyError", value |-> None]
        ELSE [raised |-> NoError, value |-> Some(e.data)]

\* funcs_dict[file_ext](file): the lookup raises KeyError for an extension
\* that is no key, and a parser raises what Parse says
Dispatch(fsys, file) ==
    IF file_ext(file) \notin DOMAIN funcs_dict
    THEN [raised |-> "KeyError", value |-> None, invoked |-> <<>>]
    ELSE LET parser == funcs_dict[file_ext(file)]
             r == Parse(parser, fsys, file)
         IN  [raised |-> r.raised, value |-> r.value, invoked |-> <<parser>>]

\* the except clauses around the dispatch: KeyError becomes
\* FileNotFoundError, IOError is raised again as IOError, anything else
\* passes through
Reraise(raised) ==
    IF raised = "KeyError" THEN "FileNotFoundError"
    ELSE IF raised = "IOError" THEN "IOError"
    ELSE raised

\* a faulty variant: the loader without its existence check: the parser is handed
\* the missing path and fails to open it
load_model_from_file_unchecked(fsys, file) ==
    IF ~ exists(fsys, file)
    THEN IF file_ext(file) \in DOMAIN funcs_dict
         THEN [raised |-> "IOError", value |-> None,
               invoked |-> <<funcs_dict[file_ext(file)]>>,
               logged |-> << <<"ext", file_ext(file)>> >>]
         ELSE [raised |-> "FileNotFoundError", value |-> None,
               invoked |-> <<>>, logged |-> << <<"ext", file_ext(file)>> >>]
    ELSE LET d == Dispatch(fsys, file)
         IN  [raised |-> Reraise(d.raised), value |-> d.value,
              invoked |-> d.invoked,
              logged |-> << <<"ext", file_ext(file)>> >>]

load_model_from_file(fsys, file) ==
    IF ~ exists(fsys, file)
    THEN [raised |-> "FileNotFoundError", value |-> None,
          invoked |-> <<>>, logged |-> <<>>]
    ELSE LET d == Dispatch(fsys, file)
         IN  [raised |-> Reraise(d.raised), value |-> d.value,
              invoked |-> d.invoked,
              logged |-> << <<"ext", file_ext(file)>> >>]

----------------------------------------------------------------------------
(* class Knockout *)

\* a faulty variant: the base name with only its final extension removed
out_name_last_dot(model_file) ==
    LET pieces == Split(Last(Split(model_file, T_slash)), T_dot)
    IN  IF Len(pieces) = 1 THEN pieces[1]
        ELSE Join(SubSeq(pieces, 1, Len(pieces) - 1), <<T_dot>>)

\* self.model_file.split("/")[-1].split(".")[0]
out_name(model_file) == Split(Last(Split(model_file, T_slash)), T_dot)[1]

\* f"{self.outdir}/{self.out_name}_knock_res.txt"
out_res(outdir, model_file) ==
    outdir \o <<T_slash>> \o out_name(model_file) \o T_knock_res

\* a dict with no key
EmptyDict == [k \in {} |-> <<>>]

\* a faulty variant: mkdir -p run whether or not the path exists
NeedsMkdir_always(fsys, outdir) == TRUE

\* the guard of the directory creation: not os.path.exists(self.outdir)
NeedsMkdir(fsys, outdir) == ~ exists(fsys, outdir)

\* Knockout(model_file, outdir, method): the fields set, then the output
\* directory created when the path does not exist; a failing mkdir raises
\* from the constructor and no object results
Knockout(fsys, model_file, outdir, method) ==
    LET self == [constructed |-> TRUE,
                 model_file  |-> model_file,
                 outdir      |-> outdir,
                 method      |-> method,
                 gene_list   |-> None,
                 model_obj   |-> None,
                 gene_info   |-> EmptyDict,
                 out_name    |-> out_name(model_file),
                 out_res     |-> out_res(outdir, model_file)]
    IN  IF NeedsMkdir(fsys, outdir)
        THEN LET m == mkdir_p(fsys, outdir)
             IN  IF m.ok
                 THEN [raised |-> NoError, self |-> self, fs |-> m.fs, mkdir |-> TRUE]
                 ELSE [raised |-> "CalledProcessError", self |-> NoObject,
                       fs |-> m.fs, mkdir |-> TRUE]
        ELSE [raised |-> NoError, self |-> self, fs |-> fsys, mkdir |-> FALSE]

\* self.gene_list = gene_list
set_gene_list(self, gene_list) == [self EXCEPT !.gene_list = Some(gene_list)]

\* dict.update({key: value})
dict_update(d, key, value) ==
    [k \in (DOMAIN d) \cup {key} |-> IF k = key THEN value ELSE d[k]]

\* the loop of parse_gene_info_from_model over model_obj.genes
RECURSIVE UpdateGeneInfo(_, _)
UpdateGeneInfo(gene_info, genes) ==
    IF genes = <<>> THEN gene_info
    ELSE UpdateGeneInfo(dict_update(gene_info, Head(genes).id, Head(genes).name),
                        Tail(genes))

\* parse_gene_info_from_model: the dict after the loop and the line
\* logged; self.model_obj.genes raises AttributeError while model_obj is
\* None, before anything is changed or logged
parse_gene_info_from_model(self) ==
    IF ~ self.model_obj.some
    THEN [raised |-> "AttributeError", self |-> self, logged |-> <<>>]
    ELSE LET info == UpdateGeneInfo(self.gene_info, self.model_obj.value)
         IN  [raised |-> NoError,
              self   |-> [self EXCEPT !.gene_info = info],
              logged |-> << <<"Total Genes", Cardinality(DOMAIN info)>> >>]

\* load_data: the model is stored only when the loader returned
load_data(self, fsys) ==
    LET r == load_model_from_file(fsys, self.model_file)
    IN  IF r.raised # NoError
        THEN [raised |-> r.raised, self |-> self,
              invoked |-> r.invoked, logged |-> r.logged]
        ELSE LET g == parse_gene_info_from_model([self EXCEPT !.model_obj = r.value])
             IN  [raised |-> g.raised, self |-> g.self,
                  invoked |-> r.invoked, logged |-> r.logged \o g.logged]

----------------------------------------------------------------------------
(* cobra.flux_analysis.single_gene_deletion, as run_knockout sees it *)

\* a growth rate, in tenths, and the growth of a deletion with no solution
Growth(tenths) == [nan |-> FALSE, tenths |-> tenths]
NaN == [nan |-> TRUE, tenths |-> 0]

\* the growth and status a deletion may report for one gene
RowOutcomes ==
    { <<Growth(5), T_optimal>>, <<Growth(0), T_infeasible>>, <<NaN, T_infeasible>> }

\* the elements of a sequence
Range(seq) == { seq[i] : i \in 1..Len(seq) }

\* the ids of the genes of a model
GeneIds(model_obj) == { model_obj[i].id : i \in 1..Len(model_obj) }

\* the genes to delete: gene_list, or every gene of the model
Scope(model_obj, gene_list) ==
    IF ~ gene_list.some THEN GeneIds(model_obj.value) ELSE Range(gene_list.value)

\* the result tables for a set of genes: one row per gene, in any order,
\* each row keyed by the one-element set of its gene
Tables(genes) ==
    LET n == Cardinality(genes)
        orders == { o \in [1..n -> genes] : \A i, j \in 1..n : o[i] = o[j] => i = j }
    IN  { [i \in 1..n |-> [ids |-> {o[i]}, growth |-> r[i][1], status |-> r[i][2]]] :
            o \in orders, r \in [1..n -> RowOutcomes] }

\* what the call may do: it raises AttributeError for a model that is None;
\* whatever genes are listed it may raise an error of its solver or of the
\* formulation of the method; for a gene that is not of the model it raises
\* KeyError, or (a routine that does not check) returns a row for it;
\* otherwise it returns a table
single_gene_deletion(model_obj, gene_list, method) ==
    IF ~ model_obj.some
    THEN { [raised |-> "AttributeError", table |-> <<>>] }
    ELSE LET genes == Scope(model_obj, gene_list)
             tables == { [raised |-> NoError, table |-> t] : t \in Tables(genes) }
             solver == { [raised |-> "SolverError", table |-> <<>>] }
         IN  IF genes \subseteq GeneIds(model_obj.value)
             THEN tables \cup solver
             ELSE tables \cup solver \cup { [raised |-> "KeyError", table |-> <<>>] }

----------------------------------------------------------------------------
(* run_knockout *)

\* list(x)[0] for the id set of a row
first_id(ids) == CHOOSE g \in ids : TRUE

\* gene_status["ids"].apply(lambda x: list(x)[0])
NormaliseIds(t) == [i \in 1..Len(t) |-> [t[i] EXCEPT !.ids = first_id(t[i].ids)]]

\* a faulty variant: a lookup that falls back to the id itself: gene_info.get(x, x)
gene_info_lookup_default(gene_info, x) ==
    IF x \in DOMAIN gene_info
    THEN [raised |-> NoError, value |-> gene_info[x]]
    ELSE [raised |-> NoError, value |-> x]

\* self.gene_info[x]: the name, or KeyError for an id that is no key
gene_info_lookup(gene_info, x) ==
    IF x \in DOMAIN gene_info
    THEN [raised |-> NoError, value |-> gene_info[x]]
    ELSE [raised |-> "KeyError", value |-> <<>>]

Digits == <<"0","1","2","3","4","5","6","7","8","9">>

\* a growth value as to_csv writes it: tenths as d.d, NaN as the empty field
FormatGrowth(g) ==
    IF g.nan THEN <<>>
    ELSE <<Digits[(g.tenths \div 10) + 1], T_dot, Digits[(g.tenths % 10) + 1]>>

\* the columns of the table, in the order they were added
Header == <<T_ids, T_growth, T_status, T_name>>

\* a faulty variant: the status column written before the growth column
RowFields_misordered(row, gene_info) ==
    <<row.ids, row.status, FormatGrowth(row.growth),
      gene_info_lookup(gene_info, row.ids).value>>

\* the fields of one row of the table, in column order
RowFields(row, gene_info) ==
    <<row.ids, FormatGrowth(row.growth), row.status,
      gene_info_lookup(gene_info, row.ids).value>>

\* to_csv(sep="\t", index=None): the header line, then one line per row
CsvLines(t, gene_info) ==
    <<Join(Header, <<T_tab>>)>> \o
    [i \in 1..Len(t) |-> Join(RowFields(t[i], gene_info), <<T_tab>>)]

\* Counter(gene_status['status'].to_list())
StatusCounter(t) ==
    [s \in { t[i].status : i \in 1..Len(t) } |->
        Cardinality({ i \in 1..Len(t) : t[i].status = s })]

\* whether to_csv can open path for writing: its directory is a directory
\* and path itself is not one
Writable(fsys, dir, path) ==
    /\ exists(fsys, dir) /\ fsys[dir].kind = "dir"
    /\ exists(fsys, path) => fsys[path].kind # "dir"

\* what to_csv may do once it has opened the path, which creates or
\* truncates the file: write every line and return, or fail while writing
\* (no space left, a character the encoding lacks) with the lines written
\* so far left in the file
to_csv(lines) ==
    { [raised |-> NoError, lines |-> lines] } \cup
    { [raised |-> "OSError", lines |-> SubSeq(lines, 1, k)] : k \in 0..Len(lines) }

\* run_knockout with d the outcome of the single_gene_deletion call: the
\* set of its outcomes, one for each outcome of the save
run_knockout(self, fsys, d) ==
    IF d.raised # NoError
    THEN { [raised |-> d.raised, fs |-> fsys, logged |-> <<>>, table |-> None] }
    ELSE LET t == NormaliseIds(d.table)
         IN  IF \E i \in 1..Len(t) : gene_info_lookup(self.gene_info, t[i].ids).raised # NoError
             THEN { [raised |-> "KeyError", fs |-> fsys, logged |-> <<>>, table |-> None] }
             ELSE IF ~ Writable(fsys, self.outdir, self.out_res)
             THEN { [raised |-> "OSError", fs |-> fsys,
                     logged |-> << <<"Counter", StatusCounter(t)>> >>, table |-> None] }
             ELSE { [raised |-> w.raised,
                     fs |-> Put(fsys, self.out_res, TextFile(w.lines)),
                     logged |-> << <<"Counter", StatusCounter(t)>> >>,
                     table |-> (IF w.raised = NoError THEN Some(d.table) ELSE None)] :
                    w \in to_csv(CsvLines(t, self.gene_info)) }

----------------------------------------------------------------------------
(* Inputs *)

\* the longest gene list file, in lines
MaxGeneLines == 2

\* the model file paths tried
ModelPaths ==
    { <<"/","d","a","t","a","/","m","y",".","m","o","d","e","l",".","v","2",".","x","m","l">>,
      <<"m",".","j","s","o","n">>,
      <<"/","d","a","t","a","/","m",".","M","A","T">>,
      <<"m",".","X","m","l">>,
      <<"m",".","t","x","t">>,
      <<"x","m","l">>,
      <<"/","d",".","x","m","l","/","m">>,
      <<"/","d",".","v","1","/","m",".","j","s","o","n">>,
      <<"m",".">>,
      <<".","j","s","o","n">>,
      <<"m",".","x","m","l",".","b","a","k">> }

\* the output directories tried
P_out == <<"/","o","u","t">>
P_out_r1 == <<"/","o","u","t","/","r","1">>
OutDirs == { P_out, P_out_r1 }

\* other paths of the output tree
P_notes == <<"/","o","u","t","/","n","o","t","e","s",".","t","x","t">>
P_r1_notes == <<"/","o","u","t","/","r","1","/","n","o","t","e","s",".","t","x","t">>
P_old_my == <<"/","o","u","t","/","m","y","_","k","n","o","c","k","_","r","e","s",".","t","x","t">>
P_old_m == <<"/","o","u","t","/","m","_","k","n","o","c","k","_","r","e","s",".","t","x","t">>
P_genes == <<"g","e","n","e","s",".","t","x","t">>

Methods == { "fba", "room" }

G_A == <<"A">>
G_B == <<"B">>
G_C == <<"C">>
G_Z == <<"Z">>

\* the genes (id, name, in model order) of the two models tried
Genes1 == << [id |-> G_A, name |-> <<"a","l","p","h","a">>], [id |-> G_B, name |-> <<"b","e","t","a">>] >>
Genes2 == << [id |-> G_C, name |-> <<"g","a","m","m","a">>], [id |-> G_B, name |-> G_B] >>

\* what may be stored at the model file's path
ModelEntries ==
    { ModelFile("sbml", Genes1), ModelFile("json", Genes1), ModelFile("matlab", Genes2),
      MalformedFile("json"), UnreadableFile }

\* the states of the output tree before the run: nothing there; the
\* directory with a bystander file and results of earlier runs; a regular file where the directory should be; both directories
OutTrees ==
    { EmptyDict,
      [q \in {P_out, P_notes, P_old_my, P_old_m} |->
          IF q = P_out THEN Dir
          ELSE IF q = P_notes THEN TextFile(<< <<"k","e","e","p">> >>)
          ELSE TextFile(<< <<"s","t","a","l","e">> >>)],
      [q \in {P_out} |-> TextFile(<< <<"k","e","e","p">> >>)],
      [q \in {P_out, P_out_r1, P_r1_notes} |->
          IF q = P_r1_notes THEN TextFile(<< <<"k","e","e","p">> >>) ELSE Dir] }

\* the lines a gene list file may hold
GeneLines == { G_A, G_Z }

\* the gene list files tried: up to MaxGeneLines lines, the last one with
\* or without its newline
GeneTexts ==
    UNION { { Join(ls, <<T_newline>>), Join(ls, <<T_newline>>) \o <<T_newline>> } :
              ls \in UNION { [1..n -> GeneLines] : n \in 0..MaxGeneLines } }

\* gene list files with the line ends of other platforms: "A\r\nZ\r\n"
\* and "A\rZ"
CrGeneTexts ==
    { <<"A", "\r", "\n", "Z", "\r", "\n">>, <<"A", "\r", "Z">> }

\* the union of two file systems over disjoint paths
Merge(f, g) == [q \in (DOMAIN f) \cup (DOMAIN g) |-> IF q \in DOMAIN f THEN f[q] ELSE g[q]]

\* the file systems with entry e, or nothing, at path
Maybe(path, entries) ==
    { EmptyDict } \cup { [q \in {path} |-> e] : e \in entries }

----------------------------------------------------------------------------
(* main *)

\* a faulty variant: exceptions are swallowed and main goes on
Aborts_never(raised) == FALSE

\* an exception raised in main is not caught: it ends the run
Aborts(raised) == raised # NoError

\* the record of a call of a method, and of its return when it raised nothing
Called(method, raised) ==
    << <<method, <<>> >> >> \o
    (IF raised = NoError THEN << <<method \o ":return", <<>> >> >> ELSE <<>>)

Init ==
    /\ \E mf \in ModelPaths, od \in OutDirs, m \in Methods, gl \in {None, Some(P_genes)} :
           argv = [model_file |-> mf, outdir |-> od, method |-> m, gene_list |-> gl]
    /\ \E tree \in OutTrees, mfs \in Maybe(argv.model_file, ModelEntries),
          gfs \in IF ~ argv.gene_list.some THEN { EmptyDict }
                  ELSE Maybe(P_genes, { TextFile(t) : t \in GeneTexts \cup CrGeneTexts }) :
           fs = Merge(Merge(tree, mfs), gfs)
    /\ fs0 = fs
    /\ runner = NoObject
    /\ pc = "start"
    /\ error = NoError
    /\ calls = <<>>
    /\ invoked = <<>>
    /\ log = <<>>
    /\ table = None

\* runner = Knockout(model_file=..., outdir=..., method=...)
main_Knockout ==
    /\ pc = "start"
    /\ \E r \in { Knockout(fs, argv.model_file, argv.outdir, argv.method) } :
           /\ runner' = r.self
           /\ fs' = r.fs
           /\ error' = r.raised
           /\ calls' = calls \o << <<"Knockout", argv.outdir>> >>
           /\ pc' = IF Aborts(r.raised) THEN "failed" ELSE "constructed"
    /\ UNCHANGED <<fs0, argv, invoked, log, table>>

\* if args.gene_list is not None: read the file, strip "\n" from each
\* line, runner.set_gene_list(gene_list)
main_gene_list ==
    /\ pc = "constructed"
    /\ runner.constructed
    /\ IF ~ argv.gene_list.some
       THEN /\ pc' = "listed"
            /\ UNCHANGED <<runner, error, calls>>
       ELSE IF ~ exists(fs, argv.gene_list.value)
       THEN /\ error' = "FileNotFoundError"
            /\ pc' = IF Aborts("FileNotFoundError") THEN "failed" ELSE "listed"
            /\ UNCHANGED <<runner, calls>>
       ELSE LET lines == ReadLines(fs[argv.gene_list.value].data)
                gene_list == [i \in 1..Len(lines) |-> Strip(lines[i], T_newline)]
            IN  /\ runner' = set_gene_list(runner, gene_list)
                /\ calls' = calls \o << <<"set_gene_list", <<>> >> >>
                /\ pc' = "listed"
                /\ UNCHANGED error
    /\ UNCHANGED <<fs, fs0, argv, invoked, log, table>>

\* runner.load_data()
main_load_data ==
    /\ pc = "listed"
    /\ runner.constructed
    /\ \E r \in { load_data(runner, fs) } :
           /\ runner' = r.self
           /\ error' = r.raised
           /\ invoked' = r.invoked
           /\ log' = log \o r.logged
           /\ calls' = calls \o Called("load_data", r.raised)
           /\ pc' = IF Aborts(r.raised) THEN "failed" ELSE "loaded"
    /\ UNCHANGED <<fs, fs0, argv, table>>

\* runner.run_knockout()
main_run_knockout ==
    /\ pc = "loaded"
    /\ runner.constructed
    /\ \E d \in single_gene_deletion(runner.model_obj, runner.gene_list, runner.method) :
         \E r \in run_knockout(runner, fs, d) :
             /\ fs' = r.fs
             /\ error' = r.raised
             /\ log' = log \o r.logged
             /\ table' = r.table
             /\ calls' = calls \o Called("run_knockout", r.raised)
             /\ pc' = IF Aborts(r.raised) THEN "failed" ELSE "done"
    /\ UNCHANGED <<fs0, argv, runner, invoked>>

Next ==
    \/ main_Knockout
    \/ main_gene_list
    \/ main_load_data
    \/ main_run_knockout

Spec == Init /\ [][Next]_vars

----------------------------------------------------------------------------
(* The class used directly: any sequence of calls on a Knockout object,    *)
(* with the model file rewritten on disk between calls.                    *)

\* the longest sequence of calls
MaxCalls == 4

P_m_json == <<"m",".","j","s","o","n">>

\* the gene lists given to set_gene_list
GeneLists == { <<G_A>>, <<G_Z>> }

\* the outcomes of the deletion tried on the object: every error, and the
\* tables, in every row order, whose rows all report an optimal growth
ApiDeletions(outcomes) ==
    { d \in outcomes :
        d.raised = NoError => \A i \in 1..Len(d.table) : d.table[i].status = T_optimal }

\* what the model file may be rewritten to
RewriteEntries == { ModelFile("json", Genes2) }

InitApi ==
    /\ argv = [model_file |-> <<>>, outdir |-> <<>>, method |-> "fba", gene_list |-> None]
    /\ \E tree \in OutTrees, mfs \in Maybe(P_m_json, { ModelFile("json", Genes1) }) :
           fs = Merge(tree, mfs)
    /\ fs0 = fs
    /\ runner = NoObject
    /\ pc = "api"
    /\ error = NoError
    /\ calls = <<>>
    /\ invoked = <<>>
    /\ log = <<>>
    /\ table = None

\* runner = Knockout(model_file, outdir, method)
api_Knockout ==
    /\ Len(calls) < MaxCalls
    /\ \E od \in OutDirs :
         \E r \in { Knockout(fs, P_m_json, od, "fba") } :
           /\ runner' = (IF r.raised = NoError THEN r.self ELSE runner)
           /\ fs' = r.fs
           /\ error' = r.raised
           /\ calls' = calls \o << <<"Knockout", od>> >>
    /\ UNCHANGED <<fs0, argv, pc, invoked, log, table>>

\* runner.set_gene_list(gene_list)
api_set_gene_list ==
    /\ Len(calls) < MaxCalls
    /\ runner.constructed
    /\ \E gl \in GeneLists : runner' = set_gene_list(runner, gl)
    /\ error' = NoError
    /\ calls' = calls \o << <<"set_gene_list", <<>> >> >>
    /\ UNCHANGED <<fs, fs0, argv, pc, invoked, log, table>>

\* runner.load_data()
api_load_data ==
    /\ Len(calls) < MaxCalls
    /\ runner.constructed
    /\ \E r \in { load_data(runner, fs) } :
           /\ runner' = r.self
           /\ error' = r.raised
           /\ invoked' = r.invoked
           /\ log' = log \o r.logged
           /\ calls' = calls \o << <<"load_data", <<>> >> >>
    /\ UNCHANGED <<fs, fs0, argv, pc, table>>

\* runner.run_knockout()
api_run_knockout ==
    /\ Len(calls) < MaxCalls
    /\ runner.constructed
    /\ \E d \in ApiDeletions(single_gene_deletion(runner.model_obj, runner.gene_list,
                                                     runner.method)) :
         \E r \in run_knockout(runner, fs, d) :
             /\ fs' = r.fs
             /\ error' = r.raised
             /\ log' = log \o r.logged
             /\ table' = r.table
             /\ calls' = calls \o << <<"run_knockout", <<>> >> >>
    /\ UNCHANGED <<fs0, argv, runner, pc, invoked>>

\* runner.parse_gene_info_from_model(), called on its own
api_parse_gene_info_from_model ==
    /\ Len(calls) < MaxCalls
    /\ runner.constructed
    /\ \E g \in { parse_gene_info_from_model(runner) } :
           /\ runner' = g.self
           /\ error' = g.raised
           /\ log' = log \o g.logged
           /\ calls' = calls \o << <<"parse_gene_info_from_model", <<>> >> >>
    /\ UNCHANGED <<fs, fs0, argv, pc, invoked, table>>

\* load_model_from_file(file), called on its own: the result is bound to
\* nothing of the object
api_load_model_from_file ==
    /\ Len(calls) < MaxCalls
    /\ \E r \in { load_model_from_file(fs, P_m_json) } :
           /\ error' = r.raised
           /\ invoked' = r.invoked
           /\ log' = log \o r.logged
           /\ calls' = calls \o << <<"load_model_from_file", <<>> >> >>
    /\ UNCHANGED <<fs, fs0, argv, runner, pc, table>>

\* the model file is replaced on disk (once) between two calls
env_rewrite_model ==
    /\ runner.constructed
    /\ Len(calls) < MaxCalls
    /\ exists(fs, runner.model_file) = exists(fs0, runner.model_file)
    /\ exists(fs, runner.model_file) => fs[runner.model_file] = fs0[runner.model_file]
    /\ \E e \in RewriteEntries : fs' = Put(fs, runner.model_file, e)
    /\ UNCHANGED <<fs0, argv, runner, pc, error, calls, invoked, log, table>>

NextApi ==
    \/ api_Knockout
    \/ api_set_gene_list
    \/ api_load_data
    \/ api_run_knockout
    \/ api_parse_gene_info_from_model
    \/ api_load_model_from_file
    \/ env_rewrite_model

SpecApi == InitApi /\ [][NextApi]_vars

----------------------------------------------------------------------------
(* Properties of the loader and of the output path, checked under Spec *)

\* the model file of the run
TheModelFile == argv.model_file

\* load_data was called; load_data returned
LoadCalled == \E i \in 1..Len(calls) : calls[i][1] = "load_data"
LoadReturned == \E i \in 1..Len(calls) : calls[i][1] = "load_data:return"

\* the path has a '.', and the text after its last '.' is ext up to case
HasExtension(path, ext) ==
    \E k \in 1..Len(path) :
        /\ path[k] = T_dot
        /\ \A j \in (k + 1)..Len(path) : path[j] # T_dot
        /\ Len(path) - k = Len(ext)
        /\ \A j \in 1..Len(ext) :
               \/ path[k + j] = ext[j]
               \/ \E u \in 1..Len(UpperCase) :
                      UpperCase[u] = path[k + j] /\ LowerCase[u] = ext[j]

\* the parser the specification gives each extension
ClaimedParsers ==
    { <<T_xml, "sbml">>, <<T_json, "json">>, <<T_mat, "matlab">> }

\* C1: for an existing path whose lowercased text after the last '.' is
\* xml, json or mat, the load invokes the parser of that extension exactly
\* once and no other parser, and what the parser returns is what the load
\* returns: the model the parser reads from the file is stored unchanged,
\* and the load returns whenever the parser does.
C1_DispatchByExtension ==
    \A pair \in ClaimedParsers :
        (LoadCalled /\ exists(fs0, TheModelFile) /\ HasExtension(TheModelFile, pair[1])) =>
            /\ invoked = <<pair[2]>>
            /\ LoadReturned =>
                   /\ fs0[TheModelFile].kind = "model"
                   /\ runner.model_obj = Some(fs0[TheModelFile].data)
            /\ (fs0[TheModelFile].kind = "model" /\ fs0[TheModelFile].fmt = pair[2]) =>
                   LoadReturned

\* a MATLAB model under an upper-case extension was loaded by the MATLAB reader
C1_Witness ==
    /\ LoadReturned
    /\ TheModelFile = <<"/","d","a","t","a","/","m",".","M","A","T">>
    /\ invoked = <<"matlab">>
    /\ runner.model_obj = Some(Genes2)

\* C6: for a path that does not exist the load fails with
\* FileNotFoundError and no parser has been invoked, whatever the extension.
C6_MissingPathFailsBeforeParsing ==
    (LoadCalled /\ ~ exists(fs0, TheModelFile)) =>
        /\ invoked = <<>>
        /\ ~ LoadReturned
        /\ pc = "failed"
        /\ error = "FileNotFoundError"
        /\ ~ runner.model_obj.some

\* a missing path with a supported extension was given to the loader
C6_Witness ==
    /\ LoadCalled
    /\ ~ exists(fs0, TheModelFile)
    /\ HasExtension(TheModelFile, T_json)
    /\ error = "FileNotFoundError"

\* the text after the last '.' of the path is one of the three extensions
Recognized(path) == \E pair \in ClaimedParsers : HasExtension(path, pair[1])

\* the load raised FileNotFoundError
LoadNotFound == LoadCalled /\ pc = "failed" /\ error = "FileNotFoundError"

\* C7: for an existing path whose lowercased text after the last '.' is
\* not xml, json or mat (a path with no '.' included) the load fails with
\* FileNotFoundError and returns no model; and the load raises
\* FileNotFoundError only for a missing path or an unrecognized extension.
C7_NotFoundIffMissingOrUnrecognized ==
    /\ (LoadCalled /\ exists(fs0, TheModelFile) /\ ~ Recognized(TheModelFile)) =>
           (LoadNotFound /\ ~ runner.model_obj.some)
    /\ LoadNotFound => (~ exists(fs0, TheModelFile) \/ ~ Recognized(TheModelFile))

\* the output path the specification derives: outdir, "/", the last
\* '/'-separated component of the model path cut at its first '.', and
\* "_knock_res.txt"
ClaimedOutPath(model_file, outdir, res) ==
    \E i \in 0..Len(model_file) : \E j \in i..Len(model_file) :
        /\ i = 0 \/ model_file[i] = T_slash
        /\ \A k \in (i + 1)..Len(model_file) : model_file[k] # T_slash
        /\ \A k \in (i + 1)..j : model_file[k] # T_dot
        /\ j = Len(model_file) \/ model_file[j + 1] = T_dot
        /\ res = outdir \o <<T_slash>> \o SubSeq(model_file, i + 1, j) \o T_knock_res

\* C3: the constructor derives the output path as
\* <outdir>/<name>_knock_res.txt with <name> the last '/'-separated
\* component of the model path cut at its first '.'; /data/my.model.v2.xml
\* with outdir /out gives /out/my_knock_res.txt.
C3_OutputPath ==
    runner.constructed =>
        /\ ClaimedOutPath(runner.model_file, runner.outdir, runner.out_res)
        /\ runner.model_file = TheModelFile /\ runner.outdir = argv.outdir
        /\ (TheModelFile = <<"/","d","a","t","a","/","m","y",".","m","o","d","e","l",".","v","2",".","x","m","l">> /\ argv.outdir = P_out) =>
               runner.out_res = <<"/","o","u","t","/","m","y","_","k","n","o","c","k","_","r","e","s",".","t","x","t">>

\* the object was constructed for /data/my.model.v2.xml and /out
C3_Witness ==
    /\ runner.constructed
    /\ runner.model_file = <<"/","d","a","t","a","/","m","y",".","m","o","d","e","l",".","v","2",".","x","m","l">>
    /\ runner.outdir = P_out
    /\ runner.out_res = P_old_my

----------------------------------------------------------------------------
(* Properties of run_knockout and of main, checked under Spec *)

RunCalled == \E i \in 1..Len(calls) : calls[i][1] = "run_knockout"
RunReturned == \E i \in 1..Len(calls) : calls[i][1] = "run_knockout:return"
GeneListSet == \E i \in 1..Len(calls) : calls[i][1] = "set_gene_list"

\* the line the specification gives a row: the single id of the row's id
\* set, the row's growth and status, and the gene-info name of the id
ClaimedLine(line, row, gene_info) ==
    \E g \in row.ids :
        /\ row.ids = {g}
        /\ g \in DOMAIN gene_info
        /\ line = g \o <<T_tab>> \o FormatGrowth(row.growth) \o <<T_tab>> \o
                  row.status \o <<T_tab>> \o gene_info[g]

\* the deletion result of the specification's example, and the file it gives
ExampleTable ==
    << [ids |-> {G_A}, growth |-> Growth(5), status |-> T_optimal],
       [ids |-> {G_B}, growth |-> Growth(0), status |-> T_infeasible] >>

ExampleFile ==
    << <<"i","d","s","\t","g","r","o","w","t","h","\t","s","t","a","t","u","s","\t","n","a","m","e">>,
       <<"A","\t","0",".","5","\t","o","p","t","i","m","a","l","\t","a","l","p","h","a">>,
       <<"B","\t","0",".","0","\t","i","n","f","e","a","s","i","b","l","e","\t","b","e","t","a">> >>

\* C2: when run_knockout returns, the file at the output path holds the
\* header ids, growth, status, name and then exactly one line per row of
\* the deletion result, in the result's order, each with the single id of
\* the row, its growth, its status and the gene-info name of the id; the
\* result {A}, {B} with growth 0.5, 0.0 and status optimal, infeasible on
\* the model A: alpha, B: beta gives the two rows of the example.
C2_OutputRows ==
    RunReturned =>
        /\ table.some
        /\ exists(fs, runner.out_res)
        /\ fs[runner.out_res].kind = "text"
        /\ LET lines == fs[runner.out_res].data
           IN  /\ Len(lines) = Len(table.value) + 1
               /\ lines[1] = ExampleFile[1]
               /\ \A i \in 1..Len(table.value) :
                      ClaimedLine(lines[i + 1], table.value[i], runner.gene_info)
               /\ (table.value = ExampleTable /\ runner.model_obj = Some(Genes1)) =>
                      lines = ExampleFile

\* run_knockout returned for the deletion result of the example
C2_Witness ==
    /\ RunReturned
    /\ pc = "done"
    /\ table = Some(ExampleTable)
    /\ runner.model_obj = Some(Genes1)

\* the gene list set on the object names a gene that the loaded model lacks
UnknownGeneListed ==
    /\ runner.constructed
    /\ runner.gene_list.some
    /\ runner.model_obj.some
    /\ \E g \in Range(runner.gene_list.value) : g \notin GeneIds(runner.model_obj.value)

\* the path holds what it held before the run
SameAt(path) ==
    /\ exists(fs, path) = exists(fs0, path)
    /\ exists(fs, path) => fs[path] = fs0[path]

\* C4, as stated: when the gene list set by set_gene_list has an id that
\* is no gene of the loaded model, run_knockout fails with a lookup error
\* (KeyError) and no output file is produced at the output path.
C4_UnknownGeneLookupError ==
    (RunCalled /\ UnknownGeneListed) =>
        /\ ~ RunReturned
        /\ error = "KeyError"
        /\ pc = "failed"
        /\ SameAt(runner.out_res)

\* C4, amended: when the gene list set by set_gene_list has an id that is
\* no gene of the loaded model, run_knockout fails, with a lookup error
\* (KeyError) unless the deletion routine fails with an error of its own
\* first, and no output file is produced at the output path: the path
\* holds what it held before the run.
C4_UnknownGeneFails ==
    (RunCalled /\ UnknownGeneListed) =>
        /\ ~ RunReturned
        /\ error \in {"KeyError", "SolverError"}
        /\ pc = "failed"
        /\ SameAt(runner.out_res)

\* run_knockout was called with gene A of the model and the unknown gene Z
\* listed, the output directory being there
C4_Witness ==
    /\ RunCalled
    /\ UnknownGeneListed
    /\ GeneListSet
    /\ Range(runner.gene_list.value) = {G_A, G_Z}
    /\ exists(fs, runner.outdir) /\ fs[runner.outdir].kind = "dir"
    /\ error = "KeyError"

\* nothing differs from before the run but directories of the output
\* directory's path that were created
OnlyOutDirCreated ==
    /\ DOMAIN fs0 \subseteq DOMAIN fs
    /\ \A p \in DOMAIN fs :
           IF p \in DOMAIN fs0 THEN fs[p] = fs0[p]
           ELSE fs[p] = Dir /\ p \in Ancestors(argv.outdir) \cup {argv.outdir}

\* a file was created or changed
SomethingWritten ==
    \E p \in DOMAIN fs : fs[p].kind # "dir" /\ (~ exists(fs0, p) \/ fs[p] # fs0[p])

\* every step of main has returned
AllStepsSucceeded ==
    /\ runner.constructed
    /\ argv.gene_list.some => GeneListSet
    /\ LoadReturned
    /\ RunReturned

\* C5: in every run of main a failure at any step ends the run, with
\* nothing written: a file is written only in a run in which the
\* construction, the gene list, the load with the gene-info extraction,
\* the deletion, the id normalisation and the name join all succeeded, and
\* a failed run leaves nothing behind but the created output directory.
C5_FailureWritesNothing ==
    /\ error # NoError => pc = "failed"
    /\ pc # "done" => OnlyOutDirCreated
    /\ SomethingWritten => (AllStepsSucceeded /\ pc = "done" /\ error = NoError)

\* the position in calls of the first call of a method (0 when not called)
FirstCall(method) ==
    IF \E i \in 1..Len(calls) : calls[i][1] = method
    THEN CHOOSE i \in 1..Len(calls) :
             calls[i][1] = method /\ \A j \in 1..(i - 1) : calls[j][1] # method
    ELSE 0

\* the number of calls of a method
CallCount(method) == Cardinality({ i \in 1..Len(calls) : calls[i][1] = method })

\* C8: in every run of main set_gene_list (when called) comes before
\* load_data, load_data before run_knockout, and run_knockout is called
\* only after load_data has returned; each is called at most once, and a
\* finished run has called both load_data and run_knockout, with
\* set_gene_list called whenever a gene list file was given.
C8_CallOrder ==
    /\ GeneListSet => (~ LoadCalled \/ FirstCall("set_gene_list") < FirstCall("load_data"))
    /\ RunCalled =>
           /\ LoadReturned
           /\ FirstCall("load_data") < FirstCall("load_data:return")
           /\ FirstCall("load_data:return") < FirstCall("run_knockout")
    /\ CallCount("set_gene_list") <= 1
    /\ CallCount("load_data") <= 1
    /\ CallCount("run_knockout") <= 1
    /\ GeneListSet => argv.gene_list.some
    /\ pc \in {"loaded", "done"} => (argv.gene_list.some => GeneListSet)
    /\ pc = "done" => (LoadReturned /\ RunReturned)

\* a finished run that was given a gene list file
C8_Witness ==
    /\ pc = "done"
    /\ GeneListSet
    /\ LoadReturned
    /\ RunReturned

----------------------------------------------------------------------------
(* Properties of the object under any sequence of calls, checked under SpecApi *)

\* the last call was load_data or parse_gene_info_from_model and it returned
LoadJustReturned ==
    /\ Len(calls) > 0
    /\ Last(calls)[1] \in {"load_data", "parse_gene_info_from_model"}
    /\ error = NoError

\* C9: after every completed load_data or parse_gene_info_from_model, a
\* repeated one on the same object included, the keys of gene_info are the gene ids of the model stored
\* in model_obj, each key maps to the name of its gene, and the count
\* logged as Total Genes is the number of genes of that model.
C9_GeneInfoMatchesModel ==
    LoadJustReturned =>
        /\ runner.model_obj.some
        /\ DOMAIN runner.gene_info = GeneIds(runner.model_obj.value)
        /\ \A k \in 1..Len(runner.model_obj.value) :
               /\ runner.model_obj.value[k].id \in DOMAIN runner.gene_info
               /\ runner.gene_info[runner.model_obj.value[k].id] =
                      runner.model_obj.value[k].name
        /\ Len(log) > 0
        /\ Last(log)[1] = "Total Genes"
        /\ Last(log)[2] = Len(runner.model_obj.value)

\* this step is a call of the constructor with output directory od
ConstructStep(od) == calls' = calls \o << <<"Knockout", od>> >>

\* the constructor was called with output directory od before
ConstructedBefore(od) == \E i \in 1..Len(calls) : calls[i] = <<"Knockout", od>>

\* path lies in directory dir
Under(path, dir) ==
    /\ Len(path) > Len(dir) + 1
    /\ SubSeq(path, 1, Len(dir)) = dir
    /\ path[Len(dir) + 1] = T_slash

\* what C10 asks of one step
C10_Step ==
    /\ \A od \in OutDirs :
           (ConstructStep(od) /\ exists(fs, od)) =>
               (error' # "CalledProcessError" /\ fs' = fs)
    /\ \A od \in OutDirs :
           (ConstructStep(od) /\ ConstructedBefore(od)) => fs' = fs
    /\ (runner'.constructed /\ exists(fs0, runner'.outdir)) =>
           \A p \in DOMAIN fs :
               (Under(p, runner'.outdir) /\ p # runner'.out_res) =>
                   (exists(fs', p) /\ fs'[p] = fs[p])

\* C10: constructing with an output directory that exists does not fail
\* at the directory creation and creates nothing; no call on an object
\* whose output directory was there before changes a file of that
\* directory other than the file at the object's output path; and a
\* second construction with the same output directory changes nothing.
C10_ExistingOutDir == [][C10_Step]_vars

\* an object constructed twice for an output directory that was there
\* with a bystander file, then loaded and run to a written result
C10_Witness ==
    /\ runner.constructed
    /\ exists(fs0, runner.outdir)
    /\ Cardinality({ i \in 1..Len(calls) : calls[i] = <<"Knockout", runner.outdir>> }) = 2
    /\ \E p \in DOMAIN fs0 : Under(p, runner.outdir) /\ p # runner.out_res
    /\ Last(calls)[1] = "run_knockout"
    /\ error = NoError
    /\ fs # fs0
    /\ \A p \in DOMAIN fs0 : p # runner.out_res => (exists(fs, p) /\ fs[p] = fs0[p])

====
